---- MODULE Spec2Model ----
(***************************************************************************)
(* The transformation tree of tigger/core/transformation.py as a state     *)
(* machine: construction, connect, leaf_signature and the two type/shape   *)
(* propagations.  Names are strings, a dtype or shape of 0 is Python None. *)
(***************************************************************************)
EXTENDS Integers, Sequences, FiniteSets, TLC

VARIABLES nodes, base_names, values, calls, last, vs

vars == <<nodes, base_names, values, calls, last, vs>>

----------------------------------------------------------------------------
(* Bounds of the model *)

\* largest number of calls (connect, propagate_to_base, propagate_to_leaves)
\* made on one tree
MaxCalls == 3

----------------------------------------------------------------------------
(* Names *)

\* identifiers matching ^[a-zA-Z_]\w*$
ValidNames == {"a", "b", "x", "p"}
\* a string the regex rejects
InvalidNames == {"1x"}
ArgNames == ValidNames \cup InvalidNames

valid_argument_name(name) == name \notin InvalidNames

NODE_LOAD == 0
NODE_STORE == 1
NODE_SCALAR == 2

None == 0

\* the <<dtype, shape>> of the values callers pass: dtype 2 is wider than dtype 1
UserValues == {<<1, 1>>, <<2, 1>>, <<1, 2>>}

Range(s) == {s[i] : i \in DOMAIN s}

----------------------------------------------------------------------------
(* Value model *)

\* ArrayValue(None, None)
ArrayValue(shape, dtype) ==
    [is_array |-> TRUE, dtype |-> dtype, shape |-> shape, value |-> None]

\* ScalarValue(None, None); a scalar carries no shape
ScalarValue(value, dtype) ==
    [is_array |-> FALSE, dtype |-> dtype, shape |-> None, value |-> value]

\* fill_with copies the fields of the other value and keeps the variant
fill_with(self, other) ==
    IF self.is_array
    THEN [self EXCEPT !.shape = other.shape, !.dtype = other.dtype]
    ELSE [self EXCEPT !.value = other.value, !.dtype = other.dtype]

clear(self) ==
    IF self.is_array
    THEN [self EXCEPT !.shape = None, !.dtype = None]
    ELSE [self EXCEPT !.value = None, !.dtype = None]

----------------------------------------------------------------------------
(* Transformation descriptor: the slot counts; derivations are the defaults *)

Transformation(load, store, parameters) ==
    [load |-> load, store |-> store, parameters |-> parameters]

\* the descriptors connect is called with: identity and scale_const (1 in, 1 out),
\* scale_param (one parameter), split_complex (2 out), combine_complex (2 in),
\* and a descriptor with no input slot
Transformations ==
    {Transformation(1, 1, 0), Transformation(1, 1, 1), Transformation(1, 2, 0),
     Transformation(2, 1, 0), Transformation(0, 1, 1)}

\* tr_to_children of a leaf (None)
NoTr == Transformation(0, 0, 0)

\* a node as created by the constructor and by connect: children = None
LeafNode(type) ==
    [type |-> type, children_none |-> TRUE, children |-> <<>>, tr_to_children |-> NoTr]

----------------------------------------------------------------------------
(* TransformationTree.__init__ *)

NoRepeats(s) == Cardinality(Range(s)) = Len(s)

\* the constructor returns normally
InitAccepts(stores, loads, scalars) ==
    LET names == stores \o loads \o scalars
    IN /\ \A i \in DOMAIN names : valid_argument_name(names[i])
       /\ NoRepeats(names)

InitNodes(stores, loads, scalars) ==
    [n \in Range(stores \o loads \o scalars) |->
        IF n \in Range(stores) THEN LeafNode(NODE_STORE)
        ELSE IF n \in Range(loads) THEN LeafNode(NODE_LOAD)
        ELSE LeafNode(NODE_SCALAR)]

InitValues(stores, loads, scalars) ==
    [n \in Range(stores \o loads \o scalars) |->
        IF n \in Range(scalars) THEN ScalarValue(None, None) ELSE ArrayValue(None, None)]

\* the argument lists the constructor is called with
Constructions ==
    { <<(<<"a">>), (<<"b">>), (<<"p">>)>>,
      <<(<<>>), (<<"a", "x", "b">>), (<<>>)>>,
      <<(<<"a">>), (<<"a", "b">>), (<<>>)>>,
      <<(<<>>), (<<"b", "1x">>), (<<"p">>)>> }

\* the argument lists connect is called with
ArrayArgLists ==
    {<<>>, <<"x">>, <<"b">>, <<"a">>, <<"x", "b">>, <<"p">>, <<"1x">>}

ScalarArgLists ==
    {<<>>, <<"p">>, <<"x">>, <<"1x">>}

----------------------------------------------------------------------------
(* leaf_signature *)

\* the depth-first walk of visit(), as a loop over the names still to visit:
\* visiting a node with children puts them in front of the remaining names
RECURSIVE visit(_, _, _, _, _)
visit(nds, names, visited, arrays, scalars) ==
    IF names = <<>> THEN [arrays |-> arrays, scalars |-> scalars]
    ELSE LET name == Head(names)
             rest == Tail(names)
         IN IF name \in visited THEN visit(nds, rest, visited, arrays, scalars)
            ELSE IF name \notin DOMAIN nds
                 THEN visit(nds, rest, visited \cup {name}, Append(arrays, name), scalars)
            ELSE IF nds[name].children_none
                 THEN IF nds[name].type = NODE_SCALAR
                      THEN visit(nds, rest, visited \cup {name}, arrays, Append(scalars, name))
                      ELSE visit(nds, rest, visited \cup {name}, Append(arrays, name), scalars)
            ELSE visit(nds, nds[name].children \o rest, visited \cup {name}, arrays, scalars)

IsBaseScalar(nds, name) == name \in DOMAIN nds /\ nds[name].type = NODE_SCALAR

\* leaf_signature with visited = set(): the base scalars are not marked as visited
leaf_signature_unmarked(nds, roots) ==
    LET scalars == SelectSeq(roots, LAMBDA n : IsBaseScalar(nds, n))
        r == visit(nds, roots, {}, <<>>, scalars)
    IN r.arrays \o r.scalars

\* leaf_signature with scalars = []: every scalar is listed where the walk meets it
leaf_signature_no_prefill(nds, roots) ==
    LET r == visit(nds, roots, {}, <<>>, <<>>)
    IN r.arrays \o r.scalars

\* the names of leaf_signature(base_names), in order
leaf_signature(nds, roots) ==
    LET scalars == SelectSeq(roots, LAMBDA n : IsBaseScalar(nds, n))
        r == visit(nds, roots, Range(scalars), <<>>, scalars)
    IN r.arrays \o r.scalars

\* has_array_leaf that accepts every array node, connected or not
ArrayNodeNames(nds, vals, bases) == {n \in DOMAIN nds : vals[n].is_array}

\* names = set(n for n, v in self.leaf_signature() if v.is_array)
ArrayLeafNames(nds, vals, bases) ==
    {n \in Range(leaf_signature(nds, bases)) : vals[n].is_array}

has_array_leaf(nds, vals, bases, name) == name \in ArrayLeafNames(nds, vals, bases)

----------------------------------------------------------------------------
(* connect *)

NoError == ""

\* new_nodes[name] = AttrDict(type=..., value=..., children=None, tr_to_children=None)
NewNode(type) ==
    [node |-> LeafNode(type),
     value |-> IF type = NODE_SCALAR THEN ScalarValue(None, None) ELSE ArrayValue(None, None)]

\* the loop over new_array_args, from its i-th name on
RECURSIVE ArrayArgsLoop(_, _, _, _, _)
ArrayArgsLoop(nds, parent, names, i, new_nodes) ==
    IF i > Len(names) THEN [err |-> NoError, new_nodes |-> new_nodes]
    ELSE LET name == names[i]
         IN IF name \in DOMAIN nds
            THEN IF nds[name].type = NODE_SCALAR
                 THEN [err |-> "is a scalar, expected an array", new_nodes |-> new_nodes]
                 ELSE IF parent.type = NODE_STORE
                 THEN [err |-> "Cannot connect to an existing output node",
                       new_nodes |-> new_nodes]
                 ELSE ArrayArgsLoop(nds, parent, names, i + 1, new_nodes)
            ELSE ArrayArgsLoop(nds, parent, names, i + 1,
                               (name :> NewNode(parent.type)) @@ new_nodes)

\* the loop over new_scalar_args, from its i-th name on
RECURSIVE ScalarArgsLoop(_, _, _, _)
ScalarArgsLoop(nds, names, i, new_nodes) ==
    IF i > Len(names) THEN [err |-> NoError, new_nodes |-> new_nodes]
    ELSE LET name == names[i]
         IN IF name \in DOMAIN nds
            THEN IF nds[name].type # NODE_SCALAR
                 THEN [err |-> "is an array, expected a scalar", new_nodes |-> new_nodes]
                 ELSE ScalarArgsLoop(nds, names, i + 1, new_nodes)
            ELSE ScalarArgsLoop(nds, names, i + 1,
                                (name :> NewNode(NODE_SCALAR)) @@ new_nodes)

\* the slot-count checks without the check of tr.parameters
SlotCountErrorNoParameters(parent, tr, new_array_args, new_scalar_args) ==
    IF parent.type = NODE_STORE /\ tr.load > 1
    THEN "Transformation for an output node must have one input"
    ELSE IF parent.type = NODE_STORE /\ tr.store # Len(new_array_args)
    THEN "Number of array argument names does not match the transformation"
    ELSE IF parent.type = NODE_LOAD /\ tr.store > 1
    THEN "Transformation for an input node must have one output"
    ELSE IF parent.type = NODE_LOAD /\ tr.load # Len(new_array_args)
    THEN "Number of array argument names does not match the transformation"
    ELSE NoError

\* the slot-count checks of connect; NoError when they all pass
SlotCountError(parent, tr, new_array_args, new_scalar_args) ==
    IF parent.type = NODE_STORE /\ tr.load > 1
    THEN "Transformation for an output node must have one input"
    ELSE IF parent.type = NODE_STORE /\ tr.store # Len(new_array_args)
    THEN "Number of array argument names does not match the transformation"
    ELSE IF parent.type = NODE_LOAD /\ tr.store > 1
    THEN "Transformation for an input node must have one output"
    ELSE IF parent.type = NODE_LOAD /\ tr.load # Len(new_array_args)
    THEN "Number of array argument names does not match the transformation"
    ELSE IF tr.parameters # Len(new_scalar_args)
    THEN "Number of parameter argument names does not match the transformation"
    ELSE NoError

\* a connect that adds each node as soon as it is made, instead of delaying
RaiseAfterUpdate(nds, vals, err, new_nodes) ==
    [err |-> err,
     nodes |-> [n \in DOMAIN new_nodes |-> new_nodes[n].node] @@ nds,
     values |-> [n \in DOMAIN new_nodes |-> new_nodes[n].value] @@ vals,
     pending |-> Cardinality(DOMAIN new_nodes)]

\* the tree a connect call that raises leaves behind: new_nodes is dropped
Raise(nds, vals, err, new_nodes) ==
    [err |-> err, nodes |-> nds, values |-> vals,
     pending |-> Cardinality(DOMAIN new_nodes)]

\* the three assignments that end connect
ApplyConnect(nds, vals, tr, array_arg, new_array_args, new_scalar_args, new_nodes) ==
    LET connected == [nds EXCEPT ![array_arg] =
                        [@ EXCEPT !.children_none = FALSE,
                                  !.children = new_array_args \o new_scalar_args,
                                  !.tr_to_children = tr]]
    IN [err |-> NoError,
        nodes |-> [n \in DOMAIN new_nodes |-> new_nodes[n].node] @@ connected,
        values |-> [n \in DOMAIN new_nodes |-> new_nodes[n].value] @@ vals,
        pending |-> 0]

\* connect(tr, array_arg, new_array_args, new_scalar_args) on the tree (nds, vals):
\* the error raised (NoError on success) and the tree after.  array_leaves is the
\* set has_array_leaf computes, which depends on the tree alone
connect(nds, vals, array_leaves, tr, array_arg, new_array_args, new_scalar_args) ==
    IF array_arg \notin array_leaves
    THEN Raise(nds, vals, "does not exist or is not suitable for connection", <<>>)
    ELSE IF \E name \in Range(new_array_args \o new_scalar_args) :
                ~valid_argument_name(name)
    THEN Raise(nds, vals, "Incorrect argument name", <<>>)
    ELSE
    LET parent == nds[array_arg]
        slots == SlotCountError(parent, tr, new_array_args, new_scalar_args)
    IN IF slots # NoError THEN Raise(nds, vals, slots, <<>>)
       ELSE
       LET arrs == ArrayArgsLoop(nds, parent, new_array_args, 1, <<>>)
       IN IF arrs.err # NoError THEN Raise(nds, vals, arrs.err, arrs.new_nodes)
          ELSE
          LET scs == ScalarArgsLoop(nds, new_scalar_args, 1, arrs.new_nodes)
          IN IF scs.err # NoError THEN Raise(nds, vals, scs.err, scs.new_nodes)
             ELSE ApplyConnect(nds, vals, tr, array_arg,
                               new_array_args, new_scalar_args, scs.new_nodes)

----------------------------------------------------------------------------
(* Type and shape propagation *)

\* dtypes.result_type: type promotion, here the widest of the given types
RECURSIVE result_type(_)
result_type(x) ==
    IF Len(x) = 1 THEN x[1]
    ELSE LET rest == result_type(Tail(x))
         IN IF x[1] > rest THEN x[1] ELSE rest

\* [dtype] * n
Repeat(dtype, n) == [i \in 1..n |-> dtype]

\* the default derivation get_derivation_func(False, l1) applied to the dtypes x:
\* the error raised by result_type() without arguments, or the list [dtype] * l1
DeriveList(x, l1) ==
    IF x = <<>> THEN [err |-> "ValueError", dtypes |-> <<>>]
    ELSE [err |-> NoError, dtypes |-> Repeat(result_type(x), l1)]

\* derive_l_from_sp for a STORE node, derive_s_from_lp for a LOAD node: the
\* slot count the default derivation repeats the promoted type for
ForwardCount(node) ==
    IF node.type = NODE_STORE THEN node.tr_to_children.load
    ELSE node.tr_to_children.store

\* derive_sp_from_l for a STORE node, derive_lp_from_s for a LOAD node:
\* arr_dtypes + scalar_dtypes of the default derivation
BackwardDtypes(node, dtype) ==
    LET tr == node.tr_to_children
    IN Repeat(dtype, IF node.type = NODE_STORE THEN tr.store ELSE tr.load)
       \o Repeat(dtype, tr.parameters)

\* a propagation that starts without _clear_values()
keep_values(vals) == vals

\* _clear_values()
clear_values(vals) == [n \in DOMAIN vals |-> clear(vals[n])]

\* the state a propagation works on: the values, and the exception that ended it
Running(vals) == [vals |-> vals, err |-> NoError, name |-> ""]

\* a call deeper than the tree has nodes is inside a cycle and never returns:
\* Python ends it with RecursionError
TooDeep(nds, depth) == depth > Cardinality(DOMAIN nds)

\* the shapes of the children whose value has a shape attribute
ChildShapes(vals, children) ==
    LET arrs == SelectSeq(children, LAMBDA c : vals[c].is_array)
    IN [i \in DOMAIN arrs |-> vals[arrs[i]].shape]

\* the part of deduce() after the loop over the children, without its assertion
DeriveNodeNoAssert(nds, st, name) ==
    LET node == nds[name]
        child_dtypes == [i \in DOMAIN node.children |-> st.vals[node.children[i]].dtype]
        derived == DeriveList(child_dtypes, ForwardCount(node))
    IN IF derived.err # NoError THEN [st EXCEPT !.err = derived.err]
       ELSE IF derived.dtypes = <<>> THEN [st EXCEPT !.err = "IndexError"]
       ELSE LET typed == [st.vals EXCEPT ![name].dtype = derived.dtypes[1]]
                child_shapes == ChildShapes(typed, node.children)
            IN IF child_shapes = <<>> THEN [st EXCEPT !.vals = typed, !.err = "IndexError"]
               ELSE [st EXCEPT !.vals = [typed EXCEPT ![name].shape = child_shapes[1]]]

\* the part of deduce() after the loop over the children
DeriveNode(nds, st, name) ==
    LET node == nds[name]
        child_dtypes == [i \in DOMAIN node.children |-> st.vals[node.children[i]].dtype]
        derived == DeriveList(child_dtypes, ForwardCount(node))
    IN IF derived.err # NoError THEN [st EXCEPT !.err = derived.err]
       ELSE IF derived.dtypes = <<>> THEN [st EXCEPT !.err = "IndexError"]
       ELSE LET typed == [st.vals EXCEPT ![name].dtype = derived.dtypes[1]]
                child_shapes == ChildShapes(typed, node.children)
            IN IF Cardinality(Range(child_shapes)) # 1
               THEN [st EXCEPT !.vals = typed, !.err = "AssertionError"]
               ELSE [st EXCEPT !.vals = [typed EXCEPT ![name].shape = child_shapes[1]]]

RECURSIVE deduce(_, _, _, _, _)
RECURSIVE DeduceChildren(_, _, _, _, _, _)

\* deduce(name), called at recursion depth `depth`
deduce(nds, st, values_dict, name, depth) ==
    IF st.err # NoError THEN st
    ELSE IF TooDeep(nds, depth) THEN [st EXCEPT !.err = "RecursionError"]
    ELSE IF nds[name].children_none
    THEN [st EXCEPT !.vals[name] = fill_with(@, values_dict[name])]
    ELSE LET after == DeduceChildren(nds, st, values_dict, nds[name].children, 1, depth + 1)
         IN IF after.err # NoError THEN after ELSE DeriveNode(nds, after, name)

\* for child in node.children: deduce(child), from the i-th child on
DeduceChildren(nds, st, values_dict, children, i, depth) ==
    IF i > Len(children) \/ st.err # NoError THEN st
    ELSE DeduceChildren(nds, deduce(nds, st, values_dict, children[i], depth),
                        values_dict, children, i + 1, depth)

\* propagate_to_base(values_dict): the values it leaves, the exception it ends with
propagate_to_base(nds, vals, bases, values_dict) ==
    DeduceChildren(nds, Running(clear_values(vals)), values_dict, bases, 1, 1)

\* the body of the loop over zip(node.children, arr_dtypes + scalar_dtypes),
\* up to the recursive call
PushToChild(st, node_value, child, dtype) ==
    LET child_value == st.vals[child]
    IN IF child_value.dtype # None /\ child_value.dtype # dtype
       THEN [st EXCEPT !.err = "TypePropagationError", !.name = child]
       ELSE LET typed == IF child_value.dtype = None
                         THEN [child_value EXCEPT !.dtype = dtype]
                         ELSE child_value
            IN [st EXCEPT !.vals[child] =
                    IF typed.is_array THEN [typed EXCEPT !.shape = node_value.shape]
                    ELSE typed]

RECURSIVE propagate(_, _, _, _)
RECURSIVE PropagateChildren(_, _, _, _, _, _)

\* propagate(name), called at recursion depth `depth`
propagate(nds, st, name, depth) ==
    IF st.err # NoError THEN st
    ELSE IF TooDeep(nds, depth) THEN [st EXCEPT !.err = "RecursionError"]
    ELSE IF nds[name].children_none THEN st
    ELSE PropagateChildren(nds, st, name,
                           BackwardDtypes(nds[name], st.vals[name].dtype), 1, depth + 1)

\* the loop over zip(node.children, dtypes), from the i-th pair on
PropagateChildren(nds, st, name, dts, i, depth) ==
    IF i > Len(nds[name].children) \/ i > Len(dts) \/ st.err # NoError THEN st
    ELSE LET child == nds[name].children[i]
             pushed == PushToChild(st, st.vals[name], child, dts[i])
         IN PropagateChildren(nds, propagate(nds, pushed, child, depth),
                              name, dts, i + 1, depth)

\* for name in self.base_names: fill_with, then propagate(name); from the i-th on
RECURSIVE PropagateBases(_, _, _, _, _)
PropagateBases(nds, st, bases, values_dict, i) ==
    IF i > Len(bases) \/ st.err # NoError THEN st
    ELSE LET name == bases[i]
             filled == [st EXCEPT !.vals[name] = fill_with(@, values_dict[name])]
         IN PropagateBases(nds, propagate(nds, filled, name, 1), bases, values_dict, i + 1)

\* propagate_to_leaves(values_dict): the values it leaves, the exception it ends with
propagate_to_leaves(nds, vals, bases, values_dict) ==
    PropagateBases(nds, Running(clear_values(vals)), bases, values_dict, 1)

\* the values a caller passes for the names in keys: an array value for an
\* array node, a scalar value for a scalar node, all fields defined
ValueDicts(vals, keys) ==
    {[n \in keys |-> IF vals[n].is_array THEN ArrayValue(c[n][2], c[n][1])
                     ELSE ScalarValue(1, c[n][1])] :
        c \in [keys -> UserValues]}

LeafNames(nds) == {n \in DOMAIN nds : nds[n].children_none}

----------------------------------------------------------------------------
(* The state machine *)

\* no VirtualSizes object has been constructed
NoVirtualSizes == [constructed |-> FALSE]

NoCall == [tr |-> NoTr, array_arg |-> "", new_array_args |-> <<>>,
           new_scalar_args |-> <<>>]

\* what the last call was and how it ended: the exception class (NoError when
\* it returned), the node a TypePropagationError names, the number of nodes a
\* failed connect had prepared, the arguments of a successful connect
Last(op, err, name, pending, call) ==
    [op |-> op, err |-> err, name |-> name, pending |-> pending, call |-> call]

Init ==
    \E c \in Constructions :
        /\ InitAccepts(c[1], c[2], c[3])
        /\ nodes = InitNodes(c[1], c[2], c[3])
        /\ base_names = c[1] \o c[2] \o c[3]
        /\ values = InitValues(c[1], c[2], c[3])
        /\ calls = 0
        /\ last = Last("__init__", NoError, "", 0, NoCall)
        /\ vs = NoVirtualSizes

\* the <<tr, new_array_args, new_scalar_args>> connect is called with on
\* array_arg.  A call on a name that is no array leaf ends at the first check
\* whatever its other arguments are, so one such call stands for them all
ConnectCalls(array_leaves, array_arg) ==
    IF array_arg \in array_leaves
    THEN Transformations \X ArrayArgLists \X ScalarArgLists
    ELSE {<<Transformation(1, 1, 0), <<>>, <<>>>>}

Connect ==
    /\ calls < MaxCalls
    /\ \E array_leaves \in {ArrayLeafNames(nodes, values, base_names)} :
       \E array_arg \in ArgNames :
       \E c \in ConnectCalls(array_leaves, array_arg) :
       \E r \in {connect(nodes, values, array_leaves, c[1], array_arg, c[2], c[3])} :
           /\ nodes' = r.nodes
           /\ values' = r.values
           /\ calls' = calls + 1
           /\ last' = IF r.err = NoError
                      THEN Last("connect", NoError, "", 0,
                                [tr |-> c[1], array_arg |-> array_arg,
                                 new_array_args |-> c[2],
                                 new_scalar_args |-> c[3]])
                      ELSE Last("connect", "ValueError", "", r.pending, NoCall)
           /\ UNCHANGED <<base_names, vs>>

PropagateToBase ==
    /\ calls < MaxCalls
    /\ \E values_dict \in ValueDicts(values, LeafNames(nodes)) :
       \E r \in {propagate_to_base(nodes, values, base_names, values_dict)} :
           /\ values' = r.vals
           /\ last' = Last("propagate_to_base", r.err, r.name, 0, NoCall)
           /\ calls' = calls + 1
           /\ UNCHANGED <<nodes, base_names, vs>>

PropagateToLeaves ==
    /\ calls < MaxCalls
    /\ \E values_dict \in ValueDicts(values, Range(base_names)) :
       \E r \in {propagate_to_leaves(nodes, values, base_names, values_dict)} :
           /\ values' = r.vals
           /\ last' = Last("propagate_to_leaves", r.err, r.name, 0, NoCall)
           /\ calls' = calls + 1
           /\ UNCHANGED <<nodes, base_names, vs>>

Next == Connect \/ PropagateToBase \/ PropagateToLeaves

Spec == Init /\ [][Next]_vars

\* the trees alone: propagation writes values only, which connect never reads
\* beyond the variant of a value
TreeSpec == Init /\ [][Connect]_vars

----------------------------------------------------------------------------
(* Vocabulary of the properties *)

\* the children of a node, as a set; none for a leaf
ChildrenOf(nds, n) == IF nds[n].children_none THEN {} ELSE Range(nds[n].children)

\* the nodes one or more child links away from the nodes of `from`
RECURSIVE Below(_, _, _)
Below(nds, from, found) ==
    LET next == UNION {ChildrenOf(nds, n) : n \in from} \ found
    IN IF next = {} THEN found ELSE Below(nds, next, found \cup next)

Descendants(nds, n) == Below(nds, {n}, {})

IsArrayNode(nds, n) == nds[n].type \in {NODE_LOAD, NODE_STORE}

\* the number of array slots of a non-leaf node
ArraySlots(node) ==
    IF node.type = NODE_STORE THEN node.tr_to_children.store
    ELSE node.tr_to_children.load

ConnectReturned == last.op = "connect" /\ last.err = NoError
ConnectRaised == last.op = "connect" /\ last.err # NoError
ToBaseReturned == last.op = "propagate_to_base" /\ last.err = NoError
ToLeavesReturned == last.op = "propagate_to_leaves" /\ last.err = NoError

----------------------------------------------------------------------------
(* Properties of connect *)

\* C1: a connect call that ends in an error leaves the tree as it was: the
\* set of nodes, every node's kind, children and tr_to_children, the values
\* and base_names are unchanged.
C1_ConnectAtomic ==
    [][(last'.op = "connect" /\ last'.err # NoError /\ calls' = calls + 1)
        => (nodes' = nodes /\ values' = values /\ base_names' = base_names)]_vars

\* a connect call raised after it had prepared new nodes
C1_Witness == ConnectRaised /\ last.pending > 0

\* C2: the child relation has no cycle: no node is reachable from itself by
\* following children links.
C2_NoCycle == \A n \in DOMAIN nodes : n \notin Descendants(nodes, n)

\* C3: a non-leaf LOAD node has tr.load + tr.parameters children, a non-leaf
\* STORE node has tr.store + tr.parameters children, a SCALAR node has none.
C3_ChildrenCount ==
    \A n \in DOMAIN nodes :
        LET node == nodes[n]
            tr == node.tr_to_children
        IN /\ (~node.children_none /\ node.type = NODE_LOAD)
                => Len(node.children) = tr.load + tr.parameters
           /\ (~node.children_none /\ node.type = NODE_STORE)
                => Len(node.children) = tr.store + tr.parameters
           /\ node.type = NODE_SCALAR => node.children_none

\* a tree with a connected LOAD node and a connected STORE node, one of them
\* with a parameter
C3_Witness ==
    /\ \E n \in DOMAIN nodes : ~nodes[n].children_none /\ nodes[n].type = NODE_LOAD
    /\ \E n \in DOMAIN nodes : ~nodes[n].children_none /\ nodes[n].type = NODE_STORE
    /\ \E n \in DOMAIN nodes : ~nodes[n].children_none
                               /\ nodes[n].tr_to_children.parameters > 0

\* C4: connect returns only when the slot counts match the descriptor: for a
\* STORE endpoint tr.load = 1 and tr.store = len(new_array_args), for a LOAD
\* endpoint tr.store = 1 and tr.load = len(new_array_args), and in both cases
\* tr.parameters = len(new_scalar_args).
C4_SlotCountsMatch ==
    ConnectReturned =>
        LET tr == last.call.tr
            parent == nodes[last.call.array_arg]
        IN /\ parent.type = NODE_STORE
                => (tr.load = 1 /\ tr.store = Len(last.call.new_array_args))
           /\ parent.type = NODE_LOAD
                => (tr.store = 1 /\ tr.load = Len(last.call.new_array_args))
           /\ tr.parameters = Len(last.call.new_scalar_args)

\* C5: for every non-leaf node each child in an array slot is a LOAD or STORE
\* node and each child in a scalar slot is a SCALAR node.
C5_SlotKinds ==
    \A n \in DOMAIN nodes :
        ~nodes[n].children_none =>
            \A i \in DOMAIN nodes[n].children :
                LET child == nodes[n].children[i]
                IN IF i <= ArraySlots(nodes[n])
                   THEN IsArrayNode(nodes, child)
                   ELSE nodes[child].type = NODE_SCALAR

----------------------------------------------------------------------------
(* Properties of leaf_signature *)

\* C6: leaf_signature() with the default roots lists every leaf node exactly
\* once and nothing else, every array leaf before every scalar leaf.
C6_LeafSignatureExact ==
    LET sig == leaf_signature(nodes, base_names)
    IN /\ Range(sig) = LeafNames(nodes)
       /\ NoRepeats(sig)
       /\ \A i, j \in DOMAIN sig :
            (i < j /\ IsArrayNode(nodes, sig[j])) => IsArrayNode(nodes, sig[i])

\* a tree with a leaf that has two parents, an array leaf, and a base scalar
\* that is also a child
C6_Witness ==
    /\ \E l \in LeafNames(nodes) : \E m1, m2 \in DOMAIN nodes :
            m1 # m2 /\ l \in ChildrenOf(nodes, m1) /\ l \in ChildrenOf(nodes, m2)
    /\ \E l \in LeafNames(nodes) : IsArrayNode(nodes, l)
    /\ \E l \in LeafNames(nodes) : \E m \in DOMAIN nodes :
            /\ nodes[l].type = NODE_SCALAR
            /\ l \in Range(base_names)
            /\ l \in ChildrenOf(nodes, m)

\* the leaves below the given names in the order a depth-first walk first
\* meets them, children in their stored order, a name met again skipped
RECURSIVE FirstMeetOrder(_, _, _, _)
FirstMeetOrder(nds, names, met, leaves) ==
    IF names = <<>> THEN leaves
    ELSE IF Head(names) \in met THEN FirstMeetOrder(nds, Tail(names), met, leaves)
    ELSE IF Head(names) \in DOMAIN nds /\ ~nds[Head(names)].children_none
    THEN FirstMeetOrder(nds, nds[Head(names)].children \o Tail(names),
                        met \cup {Head(names)}, leaves)
    ELSE FirstMeetOrder(nds, Tail(names), met \cup {Head(names)},
                        Append(leaves, Head(names)))

\* the reference order: the array leaves as the walk meets them, then the
\* scalars among the roots as given, then the other scalars as the walk meets them
ReferenceOrder(nds, roots) ==
    LET met == FirstMeetOrder(nds, roots, {}, <<>>)
        IsScalar(n) == n \in DOMAIN nds /\ nds[n].type = NODE_SCALAR
        root_scalars == SelectSeq(roots, IsScalar)
    IN SelectSeq(met, LAMBDA n : ~IsScalar(n))
       \o root_scalars
       \o SelectSeq(met, LAMBDA n : IsScalar(n) /\ n \notin Range(root_scalars))

\* the root lists leaf_signature is called with: the default, and every list
\* of one or two names
RootLists ==
    {base_names} \cup {<<n>> : n \in ArgNames} \cup {<<n, m>> : n, m \in ArgNames}

\* the value leaf_signature pairs a name with: <<>> stands for None
SignatureValue(nds, vals, name) == IF name \in DOMAIN nds THEN <<vals[name]>> ELSE <<>>

\* C7: leaf_signature(roots) is in the reference order, and a root that is
\* not in the tree is listed among the arrays with an undefined value.
C7_LeafSignatureOrder ==
    \A roots \in RootLists :
        LET sig == leaf_signature(nodes, roots)
        IN /\ sig = ReferenceOrder(nodes, roots)
           /\ \A n \in Range(roots) \ DOMAIN nodes :
                /\ SignatureValue(nodes, values, n) = <<>>
                /\ \E i \in DOMAIN sig :
                    /\ sig[i] = n
                    /\ \A j \in 1..(i - 1) : ~IsBaseScalar(nodes, sig[j])

\* a tree where the walk from the base names meets a scalar made by a
\* transformation before it meets a base scalar
C7_Witness ==
    LET met == FirstMeetOrder(nodes, base_names, {}, <<>>)
    IN \E i, j \in DOMAIN met :
        /\ i < j
        /\ nodes[met[i]].type = NODE_SCALAR /\ met[i] \notin Range(base_names)
        /\ nodes[met[j]].type = NODE_SCALAR /\ met[j] \in Range(base_names)

----------------------------------------------------------------------------
(* Properties of the propagations *)

\* C8: after propagate_to_base returns normally every node has a dtype, every
\* array node has a shape, and the array children of a non-leaf node have the
\* shape of that node.
C8_ToBaseDefined ==
    ToBaseReturned =>
        \A n \in DOMAIN nodes :
            /\ values[n].dtype # None
            /\ IsArrayNode(nodes, n) => values[n].shape # None
            /\ \A c \in ChildrenOf(nodes, n) :
                IsArrayNode(nodes, c) => values[c].shape = values[n].shape

\* propagate_to_base returned on a tree with a node that has two array
\* children and a node whose dtype was promoted above a child's
C8_Witness ==
    /\ ToBaseReturned
    /\ \E n \in DOMAIN nodes : \E c1, c2 \in ChildrenOf(nodes, n) :
            c1 # c2 /\ IsArrayNode(nodes, c1) /\ IsArrayNode(nodes, c2)
    /\ \E n \in DOMAIN nodes : \E c \in ChildrenOf(nodes, n) :
            values[c].dtype < values[n].dtype

\* C9: after propagate_to_leaves returns normally, the forward derivation of
\* every non-leaf node (derive_s_from_lp for a LOAD node, derive_l_from_sp for
\* a STORE node, applied to the dtypes its children now hold) gives the node's
\* own dtype.
C9_ForwardRecovers ==
    ToLeavesReturned =>
        \A n \in DOMAIN nodes :
            (~nodes[n].children_none /\ ForwardCount(nodes[n]) = 1) =>
                LET derived == DeriveList([i \in DOMAIN nodes[n].children |->
                                              values[nodes[n].children[i]].dtype],
                                          ForwardCount(nodes[n]))
                IN derived.err = NoError /\ derived.dtypes[1] = values[n].dtype

\* C10: propagate_to_leaves does not return normally when a node is a child
\* of two parents whose derivations give it different dtypes.
C10_ConflictRaises ==
    ToLeavesReturned =>
        ~ \E n, m1, m2 \in DOMAIN nodes :
            /\ n \in ChildrenOf(nodes, m1) /\ n \in ChildrenOf(nodes, m2)
            /\ \E i \in DOMAIN nodes[m1].children, j \in DOMAIN nodes[m2].children :
                /\ nodes[m1].children[i] = n
                /\ nodes[m2].children[j] = n
                /\ i <= Len(BackwardDtypes(nodes[m1], values[m1].dtype))
                /\ j <= Len(BackwardDtypes(nodes[m2], values[m2].dtype))
                /\ BackwardDtypes(nodes[m1], values[m1].dtype)[i]
                    # BackwardDtypes(nodes[m2], values[m2].dtype)[j]

----------------------------------------------------------------------------
(* Round trip: propagate_to_base, then propagate_to_leaves(base_values()) *)

\* what dtypes.result_type(None) gives a derivation called with an undefined
\* dtype: an exception (None here) or one of the dtypes
NoneResultTypes == {None, 1, 2}

\* propagate(name) for a base name: with an undefined dtype the derivation
\* gets None, and raises or spreads the dtype d
PropagateBase(nds, st, name, d) ==
    IF ~nds[name].children_none /\ st.vals[name].dtype = None
    THEN IF d = None THEN [st EXCEPT !.err = "TypeError"]
         ELSE PropagateChildren(nds, st, name, BackwardDtypes(nds[name], d), 1, 2)
    ELSE propagate(nds, st, name, 1)

\* the loop over base_names when values_dict[name] is the node's own value
\* object, as base_values() returns it: fill_with copies the value onto itself
RECURSIVE PropagateBasesAliased(_, _, _, _, _)
PropagateBasesAliased(nds, st, bases, i, d) ==
    IF i > Len(bases) \/ st.err # NoError THEN st
    ELSE LET name == bases[i]
             filled == [st EXCEPT !.vals[name] = fill_with(@, st.vals[name])]
         IN PropagateBasesAliased(nds, PropagateBase(nds, filled, name, d), bases, i + 1, d)

\* propagate_to_leaves(dict(zip(base_names, base_values()))): _clear_values()
\* clears the very objects the dictionary holds before they are read
propagate_base_values(nds, vals, bases, d) ==
    PropagateBasesAliased(nds, Running(clear_values(vals)), bases, 1, d)

RoundTrip ==
    /\ calls < MaxCalls
    /\ ToBaseReturned
    /\ \E d \in NoneResultTypes :
       \E r \in {propagate_base_values(nodes, values, base_names, d)} :
           /\ values' = r.vals
           /\ last' = Last("round_trip", r.err, r.name, 0, NoCall)
           /\ calls' = calls + 1
           /\ UNCHANGED <<nodes, base_names, vs>>

RoundSpec == Init /\ [][Connect \/ PropagateToBase \/ RoundTrip]_vars

\* C11: propagate_to_leaves called with base_values() right after a
\* propagate_to_base that returned normally returns normally too and leaves
\* every node its dtype and every array node its shape.
C11_RoundTrip ==
    [][(last'.op = "round_trip" /\ calls' = calls + 1)
        => /\ last'.err = NoError
           /\ \A n \in DOMAIN nodes :
                /\ values'[n].dtype = values[n].dtype
                /\ IsArrayNode(nodes, n) => values'[n].shape = values[n].shape]_vars

----------------------------------------------------------------------------
(* Failed propagations *)

PropagationRaised ==
    last.op \in {"propagate_to_base", "propagate_to_leaves"} /\ last.err # NoError

\* C12: after a propagate_to_base or propagate_to_leaves call that ended in
\* an error no node holds a dtype, shape or scalar value: every value is as
\* clear() leaves it.
C12_FailedLeavesNothing ==
    PropagationRaised => \A n \in DOMAIN nodes : values[n] = clear(values[n])

----------------------------------------------------------------------------
(* Virtual sizes: tigger/cluda/vsize.py *)

\* largest entry of max_grid_sizes
MaxAxis == 3
\* largest entry of global_size
MaxGlobal == 4
\* largest entry of local_size
MaxLocal == 2

\* helpers of tigger.cluda.helpers
RECURSIVE product(_)
product(seq) == IF seq = <<>> THEN 1 ELSE Head(seq) * product(Tail(seq))

\* number of blocks of the given size that cover length: ceil(length / block)
min_blocks(length, block) == (length + block - 1) \div block

\* the factor pairs <<f, n / f>> of n, f ascending
factors(n) ==
    LET divisors == {f \in 1..n : n % f = 0}
        RECURSIVE Ascending(_, _)
        Ascending(left, acc) ==
            IF left = {} THEN acc
            ELSE LET f == CHOOSE d \in left : \A e \in left : d <= e
                 IN Ascending(left \ {f}, Append(acc, <<f, n \div f>>))
    IN Ascending(divisors, <<>>)

\* integer logarithm, rounded down
RECURSIVE log2(_)
log2(n) == IF n < 2 THEN 0 ELSE 1 + log2(n \div 2)

Ones(n) == [i \in 1..n |-> 1]
Front(seq) == SubSeq(seq, 1, Len(seq) - 1)

\* what a rearrangement returns: the exception that ended it, or its rows
GridError(err) == [err |-> err, rows |-> <<>>]
GridRows(rows) == [err |-> NoError, rows |-> rows]

\* [[f] + res[0]]
PrependOne(f, res) == IF res.err # NoError THEN res ELSE GridRows(<<(<<1>> \o res.rows[1])>>)
PrependTo(f, res) == IF res.err # NoError THEN res ELSE GridRows(<<(<<f>> \o res.rows[1])>>)
\* [res[0] + [f]]
AppendTo(res, f) == IF res.err # NoError THEN res ELSE GridRows(<<Append(res.rows[1], f)>>)

\* for f, div in reversed(fs): if f <= limit: break
LastTried(fs, limit) ==
    LET fit == {i \in DOMAIN fs : fs[i][1] <= limit}
    IN IF fit = {} THEN fs[1]
       ELSE fs[CHOOSE i \in fit : \A j \in fit : j <= i]

RECURSIVE get_rearranged_grid_1d(_, _)
get_rearranged_grid_1d(grid, max_grid) ==
    LET g == grid[1]
    IN IF max_grid = <<>> THEN GridError("IndexError")
       ELSE IF g <= max_grid[1] THEN GridRows(<<(<<g>> \o Ones(Len(max_grid) - 1))>>)
       ELSE IF max_grid[1] = 0
       THEN PrependTo(1, get_rearranged_grid_1d(<<g>>, Tail(max_grid)))
       ELSE
       LET tried == LastTried(factors(g), max_grid[1])
           f == tried[1]
           div == tried[2]
       IN IF f # 1 /\ div <= product(Tail(max_grid))
          THEN PrependTo(f, get_rearranged_grid_1d(<<div>>, Tail(max_grid)))
          ELSE
          LET powers == {p \in 1..log2(max_grid[Len(max_grid)]) :
                            min_blocks(g, 2^p) <= product(Front(max_grid))}
          IN IF powers # {}
             THEN LET p == CHOOSE q \in powers : \A o \in powers : q <= o
                  IN AppendTo(get_rearranged_grid_1d(<<min_blocks(g, 2^p)>>,
                                                     Front(max_grid)), 2^p)
             ELSE PrependTo(max_grid[1],
                            get_rearranged_grid_1d(<<min_blocks(g, max_grid[1])>>,
                                                   Tail(max_grid)))

\* [mg / g1d for mg, g1d in zip(max_grid, row)], integer division
DivideGrid(max_grid, row) ==
    [i \in 1..(IF Len(max_grid) < Len(row) THEN Len(max_grid) ELSE Len(row)) |->
        max_grid[i] \div row[i]]

HasZero(row) == \E i \in DOMAIN row : row[i] = 0

\* seq[n:]
DropFirst(seq, n) == SubSeq(seq, n + 1, Len(seq))

\* grid1 + grid2
JoinRows(grid1, grid2) ==
    IF grid2.err # NoError THEN grid2 ELSE GridRows(grid1.rows \o grid2.rows)

\* the second row of get_rearranged_grid_2d, given new_max_grid
SecondRow(grid, new_max_grid) ==
    IF product(DropFirst(new_max_grid, 1)) >= grid[2]
    THEN PrependTo(1, get_rearranged_grid_1d(<<grid[2]>>, DropFirst(new_max_grid, 1)))
    ELSE get_rearranged_grid_1d(<<grid[2]>>, new_max_grid)

\* get_rearranged_grid_2d from the division of max_grid by grid1 on
AfterFirstRow(grid, max_grid, grid1) ==
    IF grid1.err # NoError THEN grid1
    ELSE IF HasZero(grid1.rows[1]) THEN GridError("ZeroDivisionError")
    ELSE JoinRows(grid1, SecondRow(grid, DivideGrid(max_grid, grid1.rows[1])))

get_rearranged_grid_2d(grid, max_grid) ==
    AfterFirstRow(grid, max_grid, get_rearranged_grid_1d(<<grid[1]>>, max_grid))

\* the third row of get_rearranged_grid_3d, given new_max_grid
ThirdRow(grid, new_max_grid) ==
    IF Len(new_max_grid) > 2 /\ product(DropFirst(new_max_grid, 2)) >= grid[3]
    THEN PrependTo(1, PrependTo(1,
            get_rearranged_grid_1d(<<grid[3]>>, DropFirst(new_max_grid, 2))))
    ELSE IF Len(new_max_grid) > 1 /\ product(DropFirst(new_max_grid, 1)) >= grid[3]
    THEN PrependTo(1, get_rearranged_grid_1d(<<grid[3]>>, DropFirst(new_max_grid, 1)))
    ELSE get_rearranged_grid_1d(<<grid[3]>>, new_max_grid)

\* get_rearranged_grid_3d from the division of max_grid by the rows of grid1 on
AfterTwoRows(grid, max_grid, grid1) ==
    IF grid1.err # NoError THEN grid1
    ELSE IF HasZero(grid1.rows[1]) \/ HasZero(grid1.rows[2])
    THEN GridError("ZeroDivisionError")
    ELSE JoinRows(grid1,
                  ThirdRow(grid, DivideGrid(DivideGrid(max_grid, grid1.rows[1]),
                                            grid1.rows[2])))

get_rearranged_grid_3d(grid, max_grid) ==
    AfterTwoRows(grid, max_grid, get_rearranged_grid_2d(SubSeq(grid, 1, 2), max_grid))

get_rearranged_grid(grid, max_grid) ==
    IF Len(grid) = 1 THEN get_rearranged_grid_1d(grid, max_grid)
    ELSE IF Len(grid) = 2 THEN get_rearranged_grid_2d(grid, max_grid)
    ELSE IF Len(grid) = 3 THEN get_rearranged_grid_3d(grid, max_grid)
    ELSE GridError("NotImplementedError")

\* a work size as the caller gives it: an int n (is_int, items = <<n>>) or a tuple
IntSize(n) == [is_int |-> TRUE, items |-> <<n>>]
TupleSize(items) == [is_int |-> FALSE, items |-> items]

\* a VirtualSizes object whose constructor raised err
FailedVirtualSizes(params, global_size, local_size, naive_bounding_grid, grid_parts, err) ==
    [constructed |-> TRUE, err |-> err, params |-> params,
     global_size |-> global_size, local_size |-> local_size,
     naive_bounding_grid |-> naive_bounding_grid, grid_parts |-> grid_parts,
     grid |-> <<>>, k_local_size |-> <<>>, k_global_size |-> <<>>]

\* k_global_size: zip(k_local_size, grid) stops at the shorter of the two
KernelGlobalSize(k_local_size, grid) ==
    [i \in 1..(IF Len(k_local_size) < Len(grid) THEN Len(k_local_size) ELSE Len(grid)) |->
        k_local_size[i] * grid[i]]

\* the object __init__ leaves once grid_parts is known
SizedVirtualSizes(params, global_size, local_size, naive_bounding_grid, grid_parts, grid, k_local_size) ==
    [constructed |-> TRUE, err |-> NoError, params |-> params,
     global_size |-> global_size, local_size |-> local_size,
     naive_bounding_grid |-> naive_bounding_grid, grid_parts |-> grid_parts,
     grid |-> grid, k_local_size |-> k_local_size,
     k_global_size |-> KernelGlobalSize(k_local_size, grid)]

\* __init__ from self.grid_parts on; res is what get_rearranged_grid gave
ArrangedVirtualSizes(params, global_size, local_size, naive_bounding_grid, res, gdims) ==
    IF res.err # NoError
    THEN FailedVirtualSizes(params, global_size, local_size, naive_bounding_grid,
                            <<>>, res.err)
    ELSE IF \E k \in DOMAIN res.rows : Len(res.rows[k]) < gdims
    THEN FailedVirtualSizes(params, global_size, local_size, naive_bounding_grid,
                            res.rows, "IndexError")
    ELSE SizedVirtualSizes(params, global_size, local_size, naive_bounding_grid, res.rows,
            [i \in 1..gdims |-> product([k \in DOMAIN res.rows |-> res.rows[k][i]])],
            local_size \o Ones(gdims - Len(local_size)))

\* __init__ from the checks of the sizes on
CheckedVirtualSizes(params, global_size, local_size, naive_bounding_grid) ==
    IF product(local_size) > params.max_work_group_size
    THEN FailedVirtualSizes(params, global_size, local_size, naive_bounding_grid,
                            <<>>, "ValueError")
    ELSE IF product(naive_bounding_grid) > product(params.max_grid_sizes)
    THEN FailedVirtualSizes(params, global_size, local_size, naive_bounding_grid,
                            <<>>, "ValueError")
    ELSE ArrangedVirtualSizes(params, global_size, local_size, naive_bounding_grid,
            get_rearranged_grid(naive_bounding_grid, params.max_grid_sizes),
            Len(params.max_grid_sizes))

\* the arity checks of __init__, then naive_bounding_grid
TupleVirtualSizes(params, global_size, local_size) ==
    IF Len(global_size) # Len(local_size)
    THEN FailedVirtualSizes(params, global_size, local_size, <<>>, <<>>, "ValueError")
    ELSE IF Len(global_size) > 3
    THEN FailedVirtualSizes(params, global_size, local_size, <<>>, <<>>, "ValueError")
    ELSE CheckedVirtualSizes(params, global_size, local_size,
            [i \in DOMAIN global_size |-> min_blocks(global_size[i], local_size[i])])

\* VirtualSizes(device_params, global_size, local_size)
VirtualSizes(device_params, global_size_arg, local_size_arg) ==
    TupleVirtualSizes(device_params, global_size_arg.items, local_size_arg.items)

\* get_call_sizes()
get_call_sizes(self) == <<self.k_global_size, self.k_local_size>>

\* the device limits the constructor is called with
DeviceParams ==
    {[max_work_group_size |-> w, max_grid_sizes |-> m] :
        w \in {MaxLocal, MaxLocal * MaxLocal * MaxLocal},
        m \in UNION {[1..n -> 1..MaxAxis] : n \in 1..3}}

\* the <<global_size, local_size>> the constructor is called with: ints, tuples
\* of equal length 1..3, tuples of different length, tuples of length 4
WorkSizes ==
    {<<IntSize(g), IntSize(l)>> : g \in 1..MaxGlobal, l \in {1, MaxLocal}}
    \cup UNION {{<<TupleSize(g), TupleSize(l)>> :
                    g \in [1..n -> 1..MaxGlobal], l \in [1..n -> {1, MaxLocal}]} :
                n \in 1..3}
    \cup {<<IntSize(g), TupleSize(<<1, 1>>)>> : g \in 1..MaxGlobal}
    \cup {<<TupleSize(<<1, 1, 1, 1>>), TupleSize(<<1, 1, 1, l>>)>> : l \in {1, MaxLocal}}

\* an empty tree, no VirtualSizes object yet
VsInit ==
    /\ nodes = InitNodes(<<>>, <<>>, <<>>)
    /\ base_names = <<>>
    /\ values = InitValues(<<>>, <<>>, <<>>)
    /\ calls = 0
    /\ last = Last("__init__", NoError, "", 0, NoCall)
    /\ vs = NoVirtualSizes

NewVirtualSizes ==
    /\ ~vs.constructed
    /\ \E device_params \in DeviceParams : \E sizes \in WorkSizes :
        vs' = VirtualSizes(device_params, sizes[1], sizes[2])
    /\ UNCHANGED <<nodes, base_names, values, calls, last>>

VsSpec == VsInit /\ [][NewVirtualSizes]_vars

VsConstructed == vs.constructed /\ vs.err = NoError

\* C13: when the constructor's validation passes (it did not raise
\* ValueError), construction completes and every entry of grid is within the
\* device's max_grid_sizes.
C13_GridAccepted ==
    (vs.constructed /\ vs.err # "ValueError") =>
        /\ vs.err = NoError
        /\ \A d \in DOMAIN vs.grid : vs.grid[d] <= vs.params.max_grid_sizes[d]

\* C14: when construction succeeds the launch covers the request: the product
\* of k_global_size is at least product(naive_bounding_grid) * product(local_size),
\* and every k_global_size[d] is a multiple of k_local_size[d].
C14_LaunchCovers ==
    VsConstructed =>
        /\ product(vs.k_global_size)
            >= product(vs.naive_bounding_grid) * product(vs.local_size)
        /\ \A d \in DOMAIN vs.k_global_size :
            vs.k_global_size[d] % vs.k_local_size[d] = 0

----------------------------------------------------------------------------
(* transformations_for: the emitted block, one record per code_list entry *)

\* the macro _LOAD_<name> or _STORE_<name>, as <<kind, name>>
MacroName(type, name) == <<type, name>>

\* "// leaf node <name>" and its macro; base tells the base_leaf_* form
LeafMacro(type, name, base) ==
    [kind |-> "leaf", name |-> name, base |-> base,
     defines |-> MacroName(type, name), refs |-> <<>>, arglist |-> <<>>]

\* leaf_load_macro(name) and leaf_store_macro(name) of a name that is not a base
TempMacro(type, name) ==
    [kind |-> "temp", name |-> name, base |-> FALSE,
     defines |-> MacroName(type, name), refs |-> <<>>, arglist |-> <<>>]

\* seq[:n]
TakeFirst(seq, n) == SubSeq(seq, 1, IF n < Len(seq) THEN n ELSE Len(seq))

\* "// node <name>": the helper function, whose body calls the macros of the
\* children in the array slots, then the node's macro
NodeCode(nds, name, base) ==
    LET node == nds[name]
        tr == node.tr_to_children
        array_names == TakeFirst(node.children,
                                 IF node.type = NODE_LOAD THEN tr.load ELSE tr.store)
    IN [kind |-> "node", name |-> name, base |-> base,
        defines |-> MacroName(node.type, name),
        refs |-> [i \in DOMAIN array_names |-> MacroName(node.type, array_names[i])],
        arglist |-> leaf_signature(nds, <<name>>)]

RECURSIVE process(_, _, _, _)
RECURSIVE ProcessChildren(_, _, _, _, _)

\* process(name); st holds visited and code_list
process(nds, bases, st, name) ==
    IF name \in st.visited THEN st
    ELSE LET seen == [st EXCEPT !.visited = @ \cup {name}]
             node == nds[name]
         IN IF node.type = NODE_SCALAR THEN seen
            ELSE IF node.children_none
            THEN [seen EXCEPT !.code_list =
                    Append(@, LeafMacro(node.type, name, name \in Range(bases)))]
            ELSE LET done == ProcessChildren(nds, bases, seen, node.children, 1)
                 IN [done EXCEPT !.code_list =
                        Append(@, NodeCode(nds, name, name \in Range(bases)))]

\* for child in node.children: process(child), from the i-th child on
ProcessChildren(nds, bases, st, children, i) ==
    IF i > Len(children) THEN st
    ELSE ProcessChildren(nds, bases, process(nds, bases, st, children[i]), children, i + 1)

\* the loop over names, from the i-th name on
RECURSIVE ProcessNames(_, _, _, _, _)
ProcessNames(nds, bases, st, names, i) ==
    IF i > Len(names) THEN st
    ELSE LET name == names[i]
             next == IF name \in Range(bases) THEN process(nds, bases, st, name)
                     ELSE [st EXCEPT !.code_list =
                            @ \o <<TempMacro(NODE_LOAD, name), TempMacro(NODE_STORE, name)>>]
         IN ProcessNames(nds, bases, next, names, i + 1)

\* transformations_for(names): the entries of code_list in order, and the
\* names of the SIGNATURE macro
transformations_for(nds, bases, names) ==
    [code_list |-> ProcessNames(nds, bases, [visited |-> {}, code_list |-> <<>>],
                                names, 1).code_list,
     signature |-> leaf_signature(nds, bases)]

\* the name lists transformations_for is called with: the base names, the
\* base names in reverse, every single base name
RequestLists(bases) ==
    {bases, [i \in DOMAIN bases |-> bases[Len(bases) + 1 - i]]}
    \cup {<<bases[i]>> : i \in DOMAIN bases}

----------------------------------------------------------------------------
(* Every operation of a tree *)

\* leaf_signature(base_names) for some roots: the list goes to the caller,
\* the tree is only read
LeafSignature ==
    /\ calls < MaxCalls
    /\ \E roots \in RootLists :
       \E sig \in {leaf_signature(nodes, roots)} :
           /\ last' = Last("leaf_signature", NoError, "", 0, NoCall)
           /\ calls' = calls + 1
           /\ UNCHANGED <<nodes, base_names, values, vs>>

\* transformations_for(names): the text goes to the caller, the tree is only read
TransformationsFor ==
    /\ calls < MaxCalls
    /\ \E names \in RequestLists(base_names) :
       \E out \in {transformations_for(nodes, base_names, names)} :
           /\ last' = Last("transformations_for", NoError, "", 0, NoCall)
           /\ calls' = calls + 1
           /\ UNCHANGED <<nodes, base_names, values, vs>>

OpsSpec ==
    Init /\ [][Connect \/ PropagateToBase \/ PropagateToLeaves
                \/ LeafSignature \/ TransformationsFor]_vars

\* C15: in every step of every operation base_names stays the same, no node
\* disappears or changes kind, a node that has children keeps its children
\* and tr_to_children, and only a connect that returns changes a node at all.
C15_StructureGrows ==
    [][/\ base_names' = base_names
       /\ DOMAIN nodes \subseteq DOMAIN nodes'
       /\ \A n \in DOMAIN nodes :
            /\ nodes'[n].type = nodes[n].type
            /\ ~nodes[n].children_none => nodes'[n] = nodes[n]
       /\ nodes' # nodes => (last'.op = "connect" /\ last'.err = NoError)]_vars

\* a connect returned on a tree that already had a connected node
C15_Witness ==
    /\ ConnectReturned
    /\ \E n \in DOMAIN nodes : n # last.call.array_arg /\ ~nodes[n].children_none

----------------------------------------------------------------------------
(* Shapes after propagate_to_leaves *)

\* C16: after propagate_to_leaves returns normally every array child of
\* every non-leaf node has the shape of that node.
C16_ChildShapes ==
    ToLeavesReturned =>
        \A n \in DOMAIN nodes : \A c \in ChildrenOf(nodes, n) :
            IsArrayNode(nodes, c) => values[c].shape = values[n].shape

----------------------------------------------------------------------------
(* The rows of grid_parts *)

\* C17 (as stated): grid_parts has one row per logical dimension, each row has
\* len(max_grid_sizes) entries, and the product of the entries of row k equals
\* naive_bounding_grid[k].
C17_GridPartsExact ==
    VsConstructed =>
        /\ Len(vs.grid_parts) = Len(vs.naive_bounding_grid)
        /\ \A k \in DOMAIN vs.grid_parts :
            /\ Len(vs.grid_parts[k]) = Len(vs.params.max_grid_sizes)
            /\ product(vs.grid_parts[k]) = vs.naive_bounding_grid[k]

\* C17 (amended): grid_parts has one row per logical dimension, each row has
\* len(max_grid_sizes) entries, and the product of the entries of row k is at
\* least naive_bounding_grid[k].
C17_GridPartsCover ==
    VsConstructed =>
        /\ Len(vs.grid_parts) = Len(vs.naive_bounding_grid)
        /\ \A k \in DOMAIN vs.grid_parts :
            /\ Len(vs.grid_parts[k]) = Len(vs.params.max_grid_sizes)
            /\ product(vs.grid_parts[k]) >= vs.naive_bounding_grid[k]

\* a fallback of get_rearranged_grid_1d padded a row of a two-row grid_parts
C17_Witness ==
    /\ VsConstructed
    /\ Len(vs.grid_parts) >= 2
    /\ \E k \in DOMAIN vs.grid_parts :
        product(vs.grid_parts[k]) > vs.naive_bounding_grid[k]

----------------------------------------------------------------------------
(* The block emitted by transformations_for *)

\* the nodes process() reaches from the requested names
ReachedFrom(nds, names) ==
    Range(names) \cup UNION {Descendants(nds, n) : n \in Range(names)}

\* the positions in code_list of the entries emitted for node n
EntriesOf(code_list, n) == {i \in DOMAIN code_list : code_list[i].name = n}

\* C18: in the block emitted by transformations_for(names) for base names,
\* every LOAD/STORE node reached has exactly one macro definition, SCALAR
\* nodes have none, and every macro the helper function of a non-leaf node
\* calls is defined by an earlier entry of the block.
C18_PostOrder ==
    \A names \in RequestLists(base_names) :
        LET code_list == transformations_for(nodes, base_names, names).code_list
        IN /\ \A n \in ReachedFrom(nodes, names) :
                Cardinality(EntriesOf(code_list, n)) = IF IsArrayNode(nodes, n) THEN 1 ELSE 0
           /\ \A i \in DOMAIN code_list : \A r \in DOMAIN code_list[i].refs :
                \E j \in 1..(i - 1) : code_list[j].defines = code_list[i].refs[r]

----------------------------------------------------------------------------
(* Propagations do not see earlier propagations *)

\* the values of a tree of the same structure no propagation has written to:
\* ArrayValue(None, None) and ScalarValue(None, None), as __init__ and connect
\* create them
UnpropagatedValues(vals) ==
    [n \in DOMAIN vals |-> IF vals[n].is_array THEN ArrayValue(None, None)
                           ELSE ScalarValue(None, None)]

\* every propagation a caller can make: with its own values, or with the
\* tree's base_values() after a propagate_to_base
HistorySpec == Init /\ [][Connect \/ PropagateToBase \/ PropagateToLeaves \/ RoundTrip]_vars

\* C19: whatever propagations, successful or failed, were made on the tree
\* before, propagate_to_base(v) and propagate_to_leaves(v) end with the values
\* and the outcome they have on the same tree with no propagation before.
C19_HistoryIndependent ==
    /\ \A v \in ValueDicts(values, LeafNames(nodes)) :
        propagate_to_base(nodes, values, base_names, v)
            = propagate_to_base(nodes, UnpropagatedValues(values), base_names, v)
    /\ \A v \in ValueDicts(values, Range(base_names)) :
        propagate_to_leaves(nodes, values, base_names, v)
            = propagate_to_leaves(nodes, UnpropagatedValues(values), base_names, v)

\* a propagation failed on a tree with a transformation and left values behind
C19_Witness ==
    /\ PropagationRaised
    /\ \E n \in DOMAIN nodes : ~nodes[n].children_none
    /\ values # UnpropagatedValues(values)

----------------------------------------------------------------------------
(* Node kinds and the direction of the dataflow *)

\* the nodes that have c among their children
ParentsOf(nds, c) == {n \in DOMAIN nds : c \in ChildrenOf(nds, n)}

\* C20: in every tree built by the constructor and connect calls every array
\* child of a LOAD node is a LOAD node and every array child of a STORE node
\* is a STORE node, and a STORE node has at most one parent.
C20_KindsFollowDataflow ==
    /\ \A n \in DOMAIN nodes : \A c \in ChildrenOf(nodes, n) :
        IsArrayNode(nodes, c) => nodes[c].type = nodes[n].type
    /\ \A c \in DOMAIN nodes :
        nodes[c].type = NODE_STORE => Cardinality(ParentsOf(nodes, c)) <= 1

----------------------------------------------------------------------------
(* The sizes handed to the driver *)

\* C21: for every VirtualSizes object whose construction succeeds,
\* get_call_sizes() returns a global and a local tuple of the same length,
\* the number of physical grid axes len(max_grid_sizes), with
\* global[d] = local[d] * grid[d] on every axis.
C21_CallSizes ==
    VsConstructed =>
        LET sizes == get_call_sizes(vs)
            gdims == Len(vs.params.max_grid_sizes)
        IN /\ Len(sizes[1]) = gdims
           /\ Len(sizes[2]) = gdims
           /\ \A d \in 1..gdims : sizes[1][d] = sizes[2][d] * vs.grid[d]

====
